---- MODULE Spec2Model ----
(***************************************************************************)
(* State-machine model of the UNO backend: the game engine                 *)
(* (src/game-logic/GameEngine.js) and the per-room handlers of the server  *)
(* (src/server.js) that apply it to the cached game state.                 *)
(*                                                                         *)
(* A card is the value object {color, value, type}; hands and piles are    *)
(* sequences, index 1 being the JavaScript index 0, and the top of the     *)
(* discard pile is its last element.  Every operation of the engine is an  *)
(* operator from a state and its arguments to the new state, or to the     *)
(* record [error |-> e] when the engine returns { error: e }.  Math.random *)
(* is a stream fixed by a seed; an operation that shuffles receives the    *)
(* current position of the stream as its last argument.                    *)
(***************************************************************************)
EXTENDS FiniteSets, Integers, Sequences, TLC

VARIABLES
    gameState,     \* activeGames[roomId]: the cached game state of the room
    cached,        \* TRUE while activeGames[roomId] exists
    randomSource,  \* position of the Math.random stream
    steps,         \* number of accepted requests so far (exploration bound)
    turnQuery,     \* input of the turn-sequencer check (TurnSpec)
    turnResult,    \* its result
    lobby,         \* the player ids of the room, in seating order
    moveQuery,     \* input of the legality check (MoveSpec)
    moveResult,    \* its result
    dbStatus,      \* games.status of the room's row in the database
    inFlight       \* the handler invocations suspended at an await

vars == <<gameState, cached, randomSource, steps, turnQuery, turnResult, lobby,
          moveQuery, moveResult, dbStatus, inFlight>>

null == "null"
none == <<>>    \* a null object reference (playableDrawnCard)

----------------------------------------------------------------------------
(* Bounds of the exploration                                               *)

MaxPlayers == 3
cardsPerPlayer == 2
NumSeeds == 8
MaxSteps == 6

----------------------------------------------------------------------------
(* Game constants                                                          *)

MinSeats == 2
MaxSeats == 10

COLORS == {"red", "yellow", "green", "blue"}
ACTION_CARDS == {"skip", "reverse", "draw2"}
WILD_CARDS == {"wild", "wild_draw4"}

Card(color, value, type) == [color |-> color, value |-> value, type |-> type]

\* createDeck, reduced: the colours first (numbers, then actions), the wilds
\* last, as the 108-card deck is built; two colours, the numbers 0 and 1
\* (two copies of the red 1, as of every number above 0), one copy of each
\* action and wild kind
createDeck ==
    << Card("red", "0", "number"),
       Card("red", "1", "number"), Card("red", "1", "number"),
       Card("red", "skip", "action"),
       Card("blue", "0", "number"),
       Card("blue", "reverse", "action"), Card("blue", "draw2", "action"),
       Card(null, "wild", "wild"), Card(null, "wild_draw4", "wild") >>

CardSet == { createDeck[k] : k \in 1..Len(createDeck) }

\* createDeck in full: per colour one 0, two of each number 1..9 and two of
\* each action, in that order; then wild and wild_draw4 in turn, four times
NUMBER_CARDS == <<"0", "1", "2", "3", "4", "5", "6", "7", "8", "9">>
colorOrder == <<"red", "yellow", "green", "blue">>
actionOrder == <<"skip", "reverse", "draw2">>

colorCards(color) ==
    <<Card(color, "0", "number")>>
    \o [k \in 1..18 |-> Card(color, NUMBER_CARDS[((k + 1) \div 2) + 1], "number")]
    \o [k \in 1..6 |-> Card(color, actionOrder[(k + 1) \div 2], "action")]

fullDeck ==
    colorCards(colorOrder[1]) \o colorCards(colorOrder[2])
    \o colorCards(colorOrder[3]) \o colorCards(colorOrder[4])
    \o [k \in 1..8 |-> IF k % 2 = 1 THEN Card(null, "wild", "wild")
                       ELSE Card(null, "wild_draw4", "wild")]

dealtPerPlayer == 7
DeckSize == Len(createDeck)

allPlayerIds == <<"a", "b", "c", "d", "e", "f", "g", "h", "i", "j", "k">>

----------------------------------------------------------------------------
(* Helpers                                                                 *)

Min(a, b) == IF a < b THEN a ELSE b

IsError(r) == "error" \in DOMAIN r /\ "thrown" \notin DOMAIN r

\* Array.prototype.findIndex by card value: 0 stands for -1
findIndex(hand, card) ==
    IF \E k \in 1..Len(hand) : hand[k] = card
    THEN CHOOSE k \in 1..Len(hand) : hand[k] = card /\ \A m \in 1..(k - 1) : hand[m] # card
    ELSE 0

\* Array.prototype.splice(index, 1)
splice(array, k) == SubSeq(array, 1, k - 1) \o SubSeq(array, k + 1, Len(array))

numPlayers(gs) == Cardinality(DOMAIN gs.players)
handSize(gs, i) == Len(gs.players[i].hand)
topOf(gs) == gs.discardPile[Len(gs.discardPile)]
indexOf(gs, id) == CHOOSE i \in DOMAIN gs.players : gs.players[i].id = id
idsOf(gs) == { gs.players[i].id : i \in DOMAIN gs.players }

\* error messages of the engine
ErrGameOver == "Game is already over"
ErrPendingDraw ==
    "You must first play or keep the card you just drew. You cannot play other cards from your hand at this time."
ErrNotYourTurn == "Not your turn"
ErrNotInHand == "Card not in hand"
ErrIllegalMove == "Invalid move - card does not match color, number, or symbol"
ErrColorRequired == "Must choose a color for wild card"
ErrInvalidColor == "Invalid color choice"
ErrNoCards == "No cards available to draw"
ErrNoDrawnToPlay == "No drawn card available to play"
ErrNoDrawnToPass == "No drawn card available to pass"
ErrNotVulnerable == "UNO call invalid - player is no longer vulnerable"
ErrNotOneCard == "UNO call invalid - player does not have exactly 1 card"
ErrNotInUno == "You are not in UNO state"
ErrInvalidSelfCall == "Invalid UNO self-call"

Fail(e) == [error |-> e]

\* an exception raised instead of a result (throw new Error(e))
Throw(e) == [thrown |-> e]
IsThrown(r) == "thrown" \in DOMAIN r

----------------------------------------------------------------------------
(* The random source and the shuffle                                       *)

\* Math.random: a congruential stream over sixteenths; nextRandom is the
\* position after one call
nextRandom(x) == (5 * x + 3) % 16

\* Math.floor(Math.random() * bound) at position x
randomIndex(x, bound) == (x * bound) \div 16

swap(array, i, j) == [array EXCEPT ![i] = array[j], ![j] = array[i]]

\* the loop of shuffleDeck, i running from length - 1 down to 1 (here from
\* Len down to 2)
RECURSIVE shuffleLoop(_, _, _)
shuffleLoop(shuffled, i, x) ==
    IF i < 2 \/ Len(shuffled) < 2 THEN shuffled
    ELSE shuffleLoop(swap(shuffled, i, randomIndex(x, i) + 1), i - 1, nextRandom(x))

\* a shuffle that loses the card it ends with in front
shuffleDeck_dropFirst(array, x) == Tail(shuffleLoop(array, Len(array), x))

shuffleDeck(array, x) == shuffleLoop(array, Len(array), x)

----------------------------------------------------------------------------
(* Game logic                                                              *)

\* isMoveValid without the value match
isMoveValid_colorOnly(cardToPlay, topCard, currentColor) ==
    IF cardToPlay.type = "wild" THEN TRUE
    ELSE IF cardToPlay.color = currentColor \/ cardToPlay.color = topCard.color THEN TRUE
    ELSE FALSE

isMoveValid(cardToPlay, topCard, currentColor) ==
    IF cardToPlay.type = "wild" THEN TRUE
    ELSE IF cardToPlay.color = currentColor \/ cardToPlay.color = topCard.color THEN TRUE
    ELSE IF cardToPlay.value = topCard.value THEN TRUE
    ELSE FALSE

countActivePlayers(gs) ==
    Cardinality({ i \in DOMAIN gs.players : gs.players[i].isActive # FALSE })

\* the while loop of getNextPlayerIndex: one iteration per call
RECURSIVE nextIndexLoop(_, _, _, _, _, _)
nextIndexLoop(isActive, totalPlayers, directionOfPlay, nextIndex, stepsRemaining, attempts) ==
    IF stepsRemaining > 0 /\ attempts < totalPlayers * 2
    THEN LET moved == nextIndex + directionOfPlay
             wrapped == IF moved < 0 THEN totalPlayers - 1
                        ELSE IF moved >= totalPlayers THEN 0
                        ELSE moved
         IN nextIndexLoop(isActive, totalPlayers, directionOfPlay, wrapped,
                          IF isActive[wrapped] # FALSE THEN stepsRemaining - 1
                                                       ELSE stepsRemaining,
                          attempts + 1)
    ELSE <<nextIndex, attempts>>

\* getNextPlayerIndex as it was before inactive players were skipped:
\* currentPlayerIndex + steps * directionOfPlay, wrapped
nextPlayerIndex_countInactive(isActive, currentPlayerIndex, directionOfPlay, stepCount) ==
    (currentPlayerIndex + stepCount * directionOfPlay + 2 * Cardinality(DOMAIN isActive))
        % Cardinality(DOMAIN isActive)

\* getNextPlayerIndex on the three things it reads of the game state
nextPlayerIndex(isActive, currentPlayerIndex, directionOfPlay, stepCount) ==
    LET totalPlayers == Cardinality(DOMAIN isActive)
        out == nextIndexLoop(isActive, totalPlayers, directionOfPlay,
                             currentPlayerIndex, stepCount, 0)
    IN IF out[2] >= totalPlayers * 2 THEN currentPlayerIndex ELSE out[1]

getNextPlayerIndex(gs, stepCount) ==
    nextPlayerIndex([i \in DOMAIN gs.players |-> gs.players[i].isActive],
                    gs.currentPlayerIndex, gs.directionOfPlay, stepCount)

resetCard(card) == IF card.type = "wild" THEN [card EXCEPT !.color = null] ELSE card

\* reshuffleDiscardPile that recycles the top card with the rest
reshuffleDiscardPile_takeAll(gs, x) ==
    IF Len(gs.drawPile) > 0 THEN gs
    ELSE IF Len(gs.discardPile) < 2 THEN gs
    ELSE [gs EXCEPT
            !.drawPile = shuffleDeck([k \in 1..Len(gs.discardPile) |->
                                         resetCard(gs.discardPile[k])], x),
            !.discardPile = <<>>]

reshuffleDiscardPile(gs, x) ==
    IF Len(gs.drawPile) > 0 THEN gs
    ELSE IF Len(gs.discardPile) < 2 THEN gs
    ELSE [gs EXCEPT
            !.drawPile = shuffleDeck([k \in 1..(Len(gs.discardPile) - 1) |->
                                         resetCard(gs.discardPile[k])], x),
            !.discardPile = <<topOf(gs)>>]

\* checkWinner that already accepts a hand of one card
checkWinner_oneLeft(player) == Len(player.hand) <= 1

checkWinner(player) == Len(player.hand) = 0

\* the body shared by the draw2 and wild_draw4 branches of applyCardEffect:
\* a reshuffle is attempted when fewer than n cards remain, then the next
\* player receives min(n, |drawPile|) cards from the front of the draw pile
forcedDraw(gs, n, x) ==
    LET target == getNextPlayerIndex(gs, 1)
        pre == IF Len(gs.drawPile) < n THEN reshuffleDiscardPile(gs, x) ELSE gs
        cardsToDraw == Min(n, Len(pre.drawPile))
    IN [pre EXCEPT !.drawPile = SubSeq(@, cardsToDraw + 1, Len(@)),
                   !.players[target].hand = @ \o SubSeq(pre.drawPile, 1, cardsToDraw)]

\* applyCardEffect whose reverse always advances one step, also between
\* two active players
applyCardEffect_reverseOneStep(gs, card, chosenColor, x) ==
    CASE card.value = "skip" ->
           LET s == [gs EXCEPT !.currentColor = card.color]
           IN [s EXCEPT !.currentPlayerIndex = getNextPlayerIndex(s, 2)]
      [] card.value = "reverse" ->
           LET s == [gs EXCEPT !.currentColor = card.color,
                               !.directionOfPlay = @ * (-1)]
           IN [s EXCEPT !.currentPlayerIndex = getNextPlayerIndex(s, 1)]
      [] card.value = "draw2" ->
           LET s == forcedDraw([gs EXCEPT !.currentColor = card.color], 2, x)
           IN [s EXCEPT !.currentPlayerIndex = getNextPlayerIndex(s, 2)]
      [] card.value = "wild" ->
           LET s == [gs EXCEPT !.currentColor = chosenColor]
           IN [s EXCEPT !.currentPlayerIndex = getNextPlayerIndex(s, 1)]
      [] card.value = "wild_draw4" ->
           LET s == forcedDraw(gs, 4, x)
           IN [s EXCEPT !.currentColor = chosenColor,
                        !.currentPlayerIndex = getNextPlayerIndex(s, 2)]
      [] OTHER -> [gs EXCEPT !.currentColor = card.color]

applyCardEffect(gs, card, chosenColor, x) ==
    CASE card.value = "skip" ->
           LET s == [gs EXCEPT !.currentColor = card.color]
           IN [s EXCEPT !.currentPlayerIndex = getNextPlayerIndex(s, 2)]
      [] card.value = "reverse" ->
           LET s == [gs EXCEPT !.currentColor = card.color,
                               !.directionOfPlay = @ * (-1)]
           IN IF countActivePlayers(s) = 2
              THEN [s EXCEPT !.currentPlayerIndex = getNextPlayerIndex(s, 2)]
              ELSE [s EXCEPT !.currentPlayerIndex = getNextPlayerIndex(s, 1)]
      [] card.value = "draw2" ->
           LET s == forcedDraw([gs EXCEPT !.currentColor = card.color], 2, x)
           IN [s EXCEPT !.currentPlayerIndex = getNextPlayerIndex(s, 2)]
      [] card.value = "wild" ->
           LET s == [gs EXCEPT !.currentColor = chosenColor]
           IN [s EXCEPT !.currentPlayerIndex = getNextPlayerIndex(s, 1)]
      [] card.value = "wild_draw4" ->
           LET s == forcedDraw(gs, 4, x)
           IN [s EXCEPT !.currentColor = chosenColor,
                        !.currentPlayerIndex = getNextPlayerIndex(s, 2)]
      [] OTHER -> [gs EXCEPT !.currentColor = card.color]

----------------------------------------------------------------------------
(* Public operations of the engine                                         *)

\* dealCards: splice(0, cardsPerPlayer) for each player id in seating order
dealCards(deck, playerIds, perPlayer) ==
    [players |-> [m \in 1..Len(playerIds) |->
                     [id |-> playerIds[m],
                      hand |-> SubSeq(deck, Min((m - 1) * perPlayer, Len(deck)) + 1,
                                      Min(m * perPlayer, Len(deck))),
                      isActive |-> TRUE]],
     deck |-> SubSeq(deck, Min(Len(playerIds) * perPlayer, Len(deck)) + 1, Len(deck))]

\* a rejected opening card that is not pushed back on the pile
pushBack_drop(pile) == Tail(pile)

\* lines 817-819 of createGameState: the rejected opening card goes to the
\* back of the draw pile and the card after it comes to the front
pushBack(pile) == Append(Tail(pile), Head(pile))

\* the search of createGameState for the opening card: while the card at
\* the front is wild or action it is pushed back on the pile and the next
\* one is taken.  fuel counts the cards not yet looked at.
\* createGameState without the search: the first card left after the deal
\* opens the discard pile
openingSearch_firstCard(pile, fuel) == pile

RECURSIVE openingSearch(_, _)
openingSearch(pile, fuel) ==
    IF fuel = 0 \/ pile = <<>> THEN <<>>
    ELSE IF Head(pile).type = "wild" \/ Head(pile).type = "action"
         THEN openingSearch(pushBack(pile), fuel - 1)
    ELSE pile

\* createGameState as the engine would return the failure as a value
createGameStateWith_returnError(deck, perPlayer, playerIds, x) ==
    IF Len(playerIds) < MinSeats \/ Len(playerIds) > MaxSeats
    THEN Fail("Game requires 2-10 players")
    ELSE LET dealt == dealCards(shuffleDeck(deck, x), playerIds, perPlayer)
             found == openingSearch(dealt.deck, Len(dealt.deck))
         IN IF found = <<>> THEN Throw("no opening card")
            ELSE [players |-> [i \in 0..(Len(playerIds) - 1) |-> dealt.players[i + 1]],
                  drawPile |-> Tail(found),
                  discardPile |-> <<Head(found)>>,
                  currentPlayerIndex |-> 0,
                  directionOfPlay |-> 1,
                  currentColor |-> Head(found).color,
                  isGameOver |-> FALSE,
                  winner |-> null,
                  playableDrawnCard |-> none,
                  unoPlayerId |-> null]

\* createGameState on a given deck and hand size.  With no number card left
\* after the deal the code reads the type of an undefined card or never
\* leaves its loop; either way it returns nothing.
createGameStateWith(deck, perPlayer, playerIds, x) ==
    IF Len(playerIds) < MinSeats \/ Len(playerIds) > MaxSeats
    THEN Throw("Game requires 2-10 players")
    ELSE LET dealt == dealCards(shuffleDeck(deck, x), playerIds, perPlayer)
             found == openingSearch(dealt.deck, Len(dealt.deck))
         IN IF found = <<>> THEN Throw("no opening card")
            ELSE [players |-> [i \in 0..(Len(playerIds) - 1) |-> dealt.players[i + 1]],
                  drawPile |-> Tail(found),
                  discardPile |-> <<Head(found)>>,
                  currentPlayerIndex |-> 0,
                  directionOfPlay |-> 1,
                  currentColor |-> Head(found).color,
                  isGameOver |-> FALSE,
                  winner |-> null,
                  playableDrawnCard |-> none,
                  unoPlayerId |-> null]

\* the games of the room: the reduced deck, cardsPerPlayer cards each
createGameState(playerIds, x) ==
    createGameStateWith(createDeck, cardsPerPlayer, playerIds, x)

\* createGameState as the program runs it: 108 cards, 7 each
createFullGameState(playerIds, x) ==
    createGameStateWith(fullDeck, dealtPerPlayer, playerIds, x)

\* lines 913-921 and 1073-1083: UNO state detection after a play
\* UNO detection that never clears the flag
unoAfterPlay_keep(gs, playerId) ==
    IF handSize(gs, gs.currentPlayerIndex) = 1
    THEN [gs EXCEPT !.unoPlayerId = playerId]
    ELSE gs

unoAfterPlay(gs, playerId) ==
    IF handSize(gs, indexOf(gs, playerId)) = 1
    THEN [gs EXCEPT !.unoPlayerId = playerId]
    ELSE IF gs.unoPlayerId = playerId THEN [gs EXCEPT !.unoPlayerId = null]
    ELSE gs

\* finishPlay without the early return of a winning play: the turn of a
\* number card is advanced on a win too
finishPlay_advanceOnWin(gs, playerId, cardToPlay, chosenColor, x) ==
    LET won == checkWinner(gs.players[gs.currentPlayerIndex])
        s == applyCardEffect(IF won THEN [gs EXCEPT !.isGameOver = TRUE, !.winner = playerId]
                                    ELSE gs,
                             cardToPlay, chosenColor, x)
    IN IF cardToPlay.type = "number"
       THEN [s EXCEPT !.currentPlayerIndex = getNextPlayerIndex(s, 1)]
       ELSE s

\* lines 923-942 and 1085-1104: winner check, card effect, turn of a number card
finishPlay(gs, playerId, cardToPlay, chosenColor, x) ==
    IF checkWinner(gs.players[gs.currentPlayerIndex])
    THEN applyCardEffect([gs EXCEPT !.isGameOver = TRUE, !.winner = playerId],
                         cardToPlay, chosenColor, x)
    ELSE LET s == applyCardEffect(gs, cardToPlay, chosenColor, x)
         IN IF cardToPlay.type = "number"
            THEN [s EXCEPT !.currentPlayerIndex = getNextPlayerIndex(s, 1)]
            ELSE s

\* playFromHand without the test of lines 894-897 that the chosen colour is
\* one of COLORS
playFromHand_anyColor(gs, playerId, cardToPlay, chosenColor, x) ==
    IF gs.players[gs.currentPlayerIndex].id # playerId THEN Fail(ErrNotYourTurn)
    ELSE IF findIndex(gs.players[gs.currentPlayerIndex].hand, cardToPlay) = 0
         THEN Fail(ErrNotInHand)
    ELSE IF ~isMoveValid(cardToPlay, topOf(gs), gs.currentColor)
         THEN Fail(ErrIllegalMove)
    ELSE IF cardToPlay.type = "wild" /\ chosenColor = null THEN Fail(ErrColorRequired)
    ELSE LET cardIndex == findIndex(gs.players[gs.currentPlayerIndex].hand, cardToPlay)
             played == [gs EXCEPT
                          !.players[gs.currentPlayerIndex].hand = splice(@, cardIndex),
                          !.discardPile = Append(@, cardToPlay)]
         IN finishPlay(unoAfterPlay(played, playerId), playerId, cardToPlay, chosenColor, x)

\* lines 866-942 of playCard: the checks after the limbo check, and the play
playFromHand(gs, playerId, cardToPlay, chosenColor, x) ==
    IF gs.players[gs.currentPlayerIndex].id # playerId THEN Fail(ErrNotYourTurn)
    ELSE IF findIndex(gs.players[gs.currentPlayerIndex].hand, cardToPlay) = 0
         THEN Fail(ErrNotInHand)
    ELSE IF ~isMoveValid(cardToPlay, topOf(gs), gs.currentColor)
         THEN Fail(ErrIllegalMove)
    ELSE IF cardToPlay.type = "wild" /\ chosenColor = null THEN Fail(ErrColorRequired)
    ELSE IF cardToPlay.type = "wild" /\ chosenColor \notin COLORS
         THEN Fail(ErrInvalidColor)
    ELSE LET cardIndex == findIndex(gs.players[gs.currentPlayerIndex].hand, cardToPlay)
             played == [gs EXCEPT
                          !.players[gs.currentPlayerIndex].hand = splice(@, cardIndex),
                          !.discardPile = Append(@, cardToPlay)]
         IN finishPlay(unoAfterPlay(played, playerId), playerId, cardToPlay, chosenColor, x)

\* playCard without the limbo check of lines 860-864
playCard_noLimboCheck(gs, playerId, cardToPlay, chosenColor, x) ==
    IF gs.isGameOver THEN Fail(ErrGameOver)
    ELSE playFromHand(gs, playerId, cardToPlay, chosenColor, x)

playCard(gs, playerId, cardToPlay, chosenColor, x) ==
    IF gs.isGameOver THEN Fail(ErrGameOver)
    ELSE IF gs.playableDrawnCard # none THEN Fail(ErrPendingDraw)
    ELSE playFromHand(gs, playerId, cardToPlay, chosenColor, x)

\* lines 985-1012 with the turn ended also when the drawn card is held
\* pending
takeCard_advanceTurn(pre, playerId) ==
    LET drawnCard == Head(pre.drawPile)
        drawn == [pre EXCEPT !.drawPile = Tail(@)]
    IN IF isMoveValid(drawnCard, topOf(drawn), drawn.currentColor)
       THEN [drawn EXCEPT !.playableDrawnCard =
                             [card |-> drawnCard, playerId |-> playerId],
                          !.currentPlayerIndex = getNextPlayerIndex(drawn, 1)]
       ELSE LET kept == [drawn EXCEPT
                           !.players[drawn.currentPlayerIndex].hand =
                               Append(@, drawnCard),
                           !.unoPlayerId = IF @ = playerId THEN null ELSE @]
            IN [kept EXCEPT
                  !.currentPlayerIndex = getNextPlayerIndex(kept, 1),
                  !.playableDrawnCard = none]

\* lines 985-1012 of drawCard: the card at the front of the draw pile is
\* held pending if it can be played, and goes to the hand, ending the turn,
\* if it cannot
takeCard(pre, playerId) ==
    LET drawnCard == Head(pre.drawPile)
        drawn == [pre EXCEPT !.drawPile = Tail(@)]
    IN IF isMoveValid(drawnCard, topOf(drawn), drawn.currentColor)
       THEN [drawn EXCEPT !.playableDrawnCard =
                             [card |-> drawnCard, playerId |-> playerId]]
       ELSE LET kept == [drawn EXCEPT
                           !.players[drawn.currentPlayerIndex].hand =
                               Append(@, drawnCard),
                           !.unoPlayerId = IF @ = playerId THEN null ELSE @]
            IN [kept EXCEPT
                  !.currentPlayerIndex = getNextPlayerIndex(kept, 1),
                  !.playableDrawnCard = none]

\* drawCard that passes the turn when no card can be drawn
drawCard_passOnEmpty(gs, playerId, x) ==
    IF gs.isGameOver THEN Fail(ErrGameOver)
    ELSE IF gs.players[gs.currentPlayerIndex].id # playerId THEN Fail(ErrNotYourTurn)
    ELSE LET pre == IF Len(gs.drawPile) = 0 THEN reshuffleDiscardPile(gs, x) ELSE gs
         IN IF Len(pre.drawPile) = 0
            THEN [pre EXCEPT !.currentPlayerIndex = getNextPlayerIndex(pre, 1)]
            ELSE takeCard(pre, playerId)

drawCard(gs, playerId, x) ==
    IF gs.isGameOver THEN Fail(ErrGameOver)
    ELSE IF gs.players[gs.currentPlayerIndex].id # playerId THEN Fail(ErrNotYourTurn)
    ELSE LET pre == IF Len(gs.drawPile) = 0 THEN reshuffleDiscardPile(gs, x) ELSE gs
         IN IF Len(pre.drawPile) = 0 THEN Fail(ErrNoCards)
            ELSE takeCard(pre, playerId)

\* playDrawnCard without the UNO state detection of lines 1073-1083
playDrawnCard_noUnoDetection(gs, playerId, chosenColor, x) ==
    IF gs.isGameOver THEN Fail(ErrGameOver)
    ELSE IF gs.players[gs.currentPlayerIndex].id # playerId THEN Fail(ErrNotYourTurn)
    ELSE IF gs.playableDrawnCard = none THEN Fail(ErrNoDrawnToPlay)
    ELSE IF gs.playableDrawnCard.playerId # playerId THEN Fail(ErrNoDrawnToPlay)
    ELSE LET cardToPlay == gs.playableDrawnCard.card
         IN IF ~isMoveValid(cardToPlay, topOf(gs), gs.currentColor)
            THEN Fail(ErrIllegalMove)
            ELSE IF cardToPlay.type = "wild" /\ chosenColor = null
                 THEN Fail(ErrColorRequired)
            ELSE IF cardToPlay.type = "wild" /\ chosenColor \notin COLORS
                 THEN Fail(ErrInvalidColor)
            ELSE LET played == [gs EXCEPT !.discardPile = Append(@, cardToPlay),
                                          !.playableDrawnCard = none]
                 IN finishPlay(played, playerId, cardToPlay, chosenColor, x)

playDrawnCard(gs, playerId, chosenColor, x) ==
    IF gs.isGameOver THEN Fail(ErrGameOver)
    ELSE IF gs.players[gs.currentPlayerIndex].id # playerId THEN Fail(ErrNotYourTurn)
    ELSE IF gs.playableDrawnCard = none THEN Fail(ErrNoDrawnToPlay)
    ELSE IF gs.playableDrawnCard.playerId # playerId THEN Fail(ErrNoDrawnToPlay)
    ELSE LET cardToPlay == gs.playableDrawnCard.card
         IN IF ~isMoveValid(cardToPlay, topOf(gs), gs.currentColor)
            THEN Fail(ErrIllegalMove)
            ELSE IF cardToPlay.type = "wild" /\ chosenColor = null
                 THEN Fail(ErrColorRequired)
            ELSE IF cardToPlay.type = "wild" /\ chosenColor \notin COLORS
                 THEN Fail(ErrInvalidColor)
            ELSE LET played == [gs EXCEPT !.discardPile = Append(@, cardToPlay),
                                          !.playableDrawnCard = none]
                 IN finishPlay(unoAfterPlay(played, playerId), playerId,
                               cardToPlay, chosenColor, x)

\* passDrawnCard that leaves the drawn card pending
passDrawnCard_keepPending(gs, playerId) ==
    IF gs.isGameOver THEN Fail(ErrGameOver)
    ELSE IF gs.players[gs.currentPlayerIndex].id # playerId THEN Fail(ErrNotYourTurn)
    ELSE IF gs.playableDrawnCard = none THEN Fail(ErrNoDrawnToPass)
    ELSE IF gs.playableDrawnCard.playerId # playerId THEN Fail(ErrNoDrawnToPass)
    ELSE LET kept == [gs EXCEPT
                        !.players[gs.currentPlayerIndex].hand =
                            Append(@, gs.playableDrawnCard.card),
                        !.unoPlayerId = IF @ = playerId THEN null ELSE @]
         IN [kept EXCEPT !.currentPlayerIndex = getNextPlayerIndex(kept, 1)]

passDrawnCard(gs, playerId) ==
    IF gs.isGameOver THEN Fail(ErrGameOver)
    ELSE IF gs.players[gs.currentPlayerIndex].id # playerId THEN Fail(ErrNotYourTurn)
    ELSE IF gs.playableDrawnCard = none THEN Fail(ErrNoDrawnToPass)
    ELSE IF gs.playableDrawnCard.playerId # playerId THEN Fail(ErrNoDrawnToPass)
    ELSE LET kept == [gs EXCEPT
                        !.players[gs.currentPlayerIndex].hand =
                            Append(@, gs.playableDrawnCard.card),
                        !.unoPlayerId = IF @ = playerId THEN null ELSE @,
                        !.playableDrawnCard = none]
         IN [kept EXCEPT !.currentPlayerIndex = getNextPlayerIndex(kept, 1)]

\* the penalty loop of callUnoPenalty: one iteration per call; the card is
\* taken from the end of the draw pile (pop)
RECURSIVE penaltyLoop(_, _, _, _)
penaltyLoop(gs, target, remaining, x) ==
    IF remaining = 0 THEN gs
    ELSE LET pre == IF Len(gs.drawPile) = 0 THEN reshuffleDiscardPile(gs, x) ELSE gs
         IN IF Len(pre.drawPile) > 0
            THEN penaltyLoop([pre EXCEPT
                                !.drawPile = SubSeq(@, 1, Len(@) - 1),
                                !.players[target].hand =
                                    Append(@, pre.drawPile[Len(pre.drawPile)])],
                             target, remaining - 1, x)
            ELSE penaltyLoop(pre, target, remaining - 1, x)

\* callUnoPenalty without its race protection: the hand size is not
\* re-checked and the UNO flag stays set after the penalty
callUnoPenalty_keepFlag(gs, targetPlayerId, callerPlayerId, x) ==
    IF gs.unoPlayerId # targetPlayerId THEN Fail(ErrNotVulnerable)
    ELSE IF targetPlayerId \notin idsOf(gs) THEN Fail("Player not found")
    ELSE penaltyLoop(gs, indexOf(gs, targetPlayerId), 2, x)

callUnoPenalty(gs, targetPlayerId, callerPlayerId, x) ==
    IF gs.unoPlayerId # targetPlayerId THEN Fail(ErrNotVulnerable)
    ELSE IF targetPlayerId \notin idsOf(gs) THEN Fail("Player not found")
    ELSE IF handSize(gs, indexOf(gs, targetPlayerId)) # 1 THEN Fail(ErrNotOneCard)
    ELSE [penaltyLoop(gs, indexOf(gs, targetPlayerId), 2, x) EXCEPT !.unoPlayerId = null]

\* callUnoSelf that also passes the turn to the next player
callUnoSelf_passTurn(gs, playerId) ==
    IF gs.unoPlayerId # playerId THEN Fail(ErrNotInUno)
    ELSE IF playerId \notin idsOf(gs) THEN Fail(ErrInvalidSelfCall)
    ELSE IF handSize(gs, indexOf(gs, playerId)) # 1 THEN Fail(ErrInvalidSelfCall)
    ELSE [gs EXCEPT !.unoPlayerId = null,
                    !.currentPlayerIndex = getNextPlayerIndex(gs, 1)]

callUnoSelf(gs, playerId) ==
    IF gs.unoPlayerId # playerId THEN Fail(ErrNotInUno)
    ELSE IF playerId \notin idsOf(gs) THEN Fail(ErrInvalidSelfCall)
    ELSE IF handSize(gs, indexOf(gs, playerId)) # 1 THEN Fail(ErrInvalidSelfCall)
    ELSE [gs EXCEPT !.unoPlayerId = null]

----------------------------------------------------------------------------
(* Sharing between the state an operation receives and the one it builds  *)

\* the mutable parts of a game state object: its own fields, the players
\* array with the player objects, the hand arrays, and the two piles
stateParts == {"fields", "players", "hands", "drawPile", "discardPile"}

engineOps ==
    {"playCard", "drawCard", "playDrawnCard", "passDrawnCard", "callUnoPenalty",
     "callUnoSelf"}

\* the copies as they would be with hand: player.hand in place of
\* hand: [...player.hand]
copiedBy_sharedHands(op) == stateParts \ {"hands"}

\* the parts an operation copies into newState before its first write:
\* { ...gameState }, players.map(player => ({ ...player, hand: [...player.hand] })),
\* [...gameState.drawPile], [...gameState.discardPile]
copiedBy(op) == stateParts

\* the parts an operation, with the helpers it calls, writes to
writtenBy(op) ==
    CASE op = "playCard" -> {"fields", "hands", "drawPile", "discardPile"}
      [] op = "drawCard" -> {"fields", "hands", "drawPile", "discardPile"}
      [] op = "playDrawnCard" -> {"fields", "hands", "drawPile", "discardPile"}
      [] op = "passDrawnCard" -> {"fields", "hands"}
      [] op = "callUnoPenalty" -> {"fields", "hands", "drawPile", "discardPile"}
      [] op = "callUnoSelf" -> {"fields"}

\* the caller's state object after the call: a part that is written without
\* having been copied shows the new contents
inputAfter(op, gs, result) ==
    LET shared == writtenBy(op) \ copiedBy(op)
    IN IF IsError(result) THEN gs
       ELSE [players |-> [i \in DOMAIN gs.players |->
                             [gs.players[i] EXCEPT
                                !.hand = IF "hands" \in shared
                                         THEN result.players[i].hand ELSE @]],
             drawPile |-> IF "drawPile" \in shared THEN result.drawPile ELSE gs.drawPile,
             discardPile |-> IF "discardPile" \in shared THEN result.discardPile
                             ELSE gs.discardPile,
             currentPlayerIndex |-> IF "fields" \in shared THEN result.currentPlayerIndex
                                    ELSE gs.currentPlayerIndex,
             directionOfPlay |-> IF "fields" \in shared THEN result.directionOfPlay
                                 ELSE gs.directionOfPlay,
             currentColor |-> IF "fields" \in shared THEN result.currentColor
                              ELSE gs.currentColor,
             isGameOver |-> IF "fields" \in shared THEN result.isGameOver ELSE gs.isGameOver,
             winner |-> IF "fields" \in shared THEN result.winner ELSE gs.winner,
             playableDrawnCard |-> IF "fields" \in shared THEN result.playableDrawnCard
                                   ELSE gs.playableDrawnCard,
             unoPlayerId |-> IF "fields" \in shared THEN result.unoPlayerId
                             ELSE gs.unoPlayerId]

----------------------------------------------------------------------------
(* Server: disconnect handling                                             *)

\* the do-while loop of getNextActivePlayerIndex: one iteration per call
RECURSIVE nextActiveLoop(_, _, _)
nextActiveLoop(gs, nextIndex, attempts) ==
    LET totalPlayers == numPlayers(gs)
        moved == (nextIndex + gs.directionOfPlay + totalPlayers) % totalPlayers
    IN IF attempts + 1 >= totalPlayers THEN gs.currentPlayerIndex
       ELSE IF gs.players[moved].isActive = FALSE
            THEN nextActiveLoop(gs, moved, attempts + 1)
       ELSE moved

getNextActivePlayerIndex(gs) == nextActiveLoop(gs, gs.currentPlayerIndex, 0)

\* a game that goes on with one active player
endByDefault_goOn(gs) ==
    LET activePlayers == { i \in DOMAIN gs.players : gs.players[i].isActive # FALSE }
    IN IF Cardinality(activePlayers) < 1
       THEN [gs EXCEPT !.isGameOver = TRUE, !.winner = null]
       ELSE gs

\* lines 2857-2862 of handlePlayerDisconnect: with one active player or none
\* left the game is over, and the last active player, if any, has won
endByDefault(gs) ==
    LET activePlayers == { i \in DOMAIN gs.players : gs.players[i].isActive # FALSE }
    IN IF Cardinality(activePlayers) <= 1
       THEN [gs EXCEPT !.isGameOver = TRUE,
                       !.winner = IF Cardinality(activePlayers) = 1
                                  THEN gs.players[CHOOSE i \in activePlayers : TRUE].id
                                  ELSE null]
       ELSE gs

\* handlePlayerDisconnect that leaves the turn with the player who left
handlePlayerDisconnect_keepTurn(gs, playerId) ==
    LET playerIndex == indexOf(gs, playerId)
        marked == [gs EXCEPT !.players[playerIndex].isActive = FALSE]
        cleared == IF marked.playableDrawnCard # none
                      /\ marked.playableDrawnCard.playerId = playerId
                   THEN [marked EXCEPT !.playableDrawnCard = none]
                   ELSE marked
    IN endByDefault(cleared)

\* the in-progress branch of handlePlayerDisconnect on the cached state
handlePlayerDisconnect(gs, playerId) ==
    LET playerIndex == indexOf(gs, playerId)
        marked == [gs EXCEPT !.players[playerIndex].isActive = FALSE]
        cleared == IF marked.playableDrawnCard # none
                      /\ marked.playableDrawnCard.playerId = playerId
                   THEN [marked EXCEPT !.playableDrawnCard = none]
                   ELSE marked
        moved == IF cleared.currentPlayerIndex = playerIndex
                 THEN [cleared EXCEPT !.currentPlayerIndex = getNextActivePlayerIndex(cleared)]
                 ELSE cleared
    IN endByDefault(moved)

----------------------------------------------------------------------------
(* The room: one cached game, requests handled one at a time               *)

\* enrichPlayerData of getRoomStateForClient: what the clients see of a player
defaultAvatar == "public/assets/images/avatar/exported avatar/ava-1.svg"

enrichPlayerData(player) ==
    [id |-> player.id,
     name |-> player.id,
     avatar |-> defaultAvatar,
     handSize |-> Len(player.hand),
     isActive |-> player.isActive]

\* a projection that passes the hands on to every client
getRoomStateForClient_withHands(gs) ==
    [status |-> "playing",
     players |-> [i \in DOMAIN gs.players |-> gs.players[i]],
     currentPlayerIndex |-> gs.currentPlayerIndex,
     currentPlayer |-> gs.players[gs.currentPlayerIndex].id,
     directionOfPlay |-> gs.directionOfPlay,
     currentColor |-> gs.currentColor,
     topCard |-> topOf(gs),
     drawPileSize |-> Len(gs.drawPile),
     isGameOver |-> gs.isGameOver,
     winner |-> gs.winner,
     playableDrawnCard |-> gs.playableDrawnCard,
     unoPlayerId |-> gs.unoPlayerId]

\* getRoomStateForClient for a game in progress: the state broadcast to the
\* room after every operation
getRoomStateForClient(gs) ==
    [status |-> "playing",
     players |-> [i \in DOMAIN gs.players |-> enrichPlayerData(gs.players[i])],
     currentPlayerIndex |-> gs.currentPlayerIndex,
     currentPlayer |-> gs.players[gs.currentPlayerIndex].id,
     directionOfPlay |-> gs.directionOfPlay,
     currentColor |-> gs.currentColor,
     topCard |-> topOf(gs),
     drawPileSize |-> Len(gs.drawPile),
     isGameOver |-> gs.isGameOver,
     winner |-> gs.winner,
     playableDrawnCard |-> gs.playableDrawnCard,
     unoPlayerId |-> gs.unoPlayerId]

\* the colours a request may carry: two colours of the deck, one that no
\* card of the deck has, none, and one that is not a colour
chosenColorInputs == {"red", "blue", "green", null, "purple"}

\* startGame: the cache receives the state createGameState returns
Init ==
    /\ randomSource \in 0..(NumSeeds - 1)
    /\ \E n \in MinSeats..MaxPlayers : lobby = SubSeq(allPlayerIds, 1, n)
    /\ gameState = createGameState(lobby, randomSource)
    /\ ~IsThrown(gameState)
    /\ cached = TRUE
    /\ steps = 0
    /\ turnQuery = null
    /\ turnResult = <<>>
    /\ moveQuery = null
    /\ moveResult = <<>>
    /\ dbStatus = null
    /\ inFlight = {}

\* a handler stores the result in the cache unless it is an error; the
\* random stream moves on with every accepted request
store(result) ==
    /\ gameState' = IF IsError(result) THEN gameState ELSE result
    /\ steps' = IF IsError(result) THEN steps ELSE steps + 1
    /\ randomSource' = IF IsError(result) THEN randomSource ELSE nextRandom(randomSource)
    /\ UNCHANGED <<cached, turnQuery, turnResult, lobby, moveQuery, moveResult, dbStatus, inFlight>>

onPlayCard ==
    /\ cached /\ steps < MaxSteps
    /\ \E playerId \in idsOf(gameState), card \in CardSet :
          \E chosenColor \in IF card.type = "wild" THEN chosenColorInputs ELSE {null} :
             store(playCard(gameState, playerId, card, chosenColor, randomSource))

onDrawCard ==
    /\ cached /\ steps < MaxSteps
    /\ \E playerId \in idsOf(gameState) :
          store(drawCard(gameState, playerId, randomSource))

onPlayDrawnCard ==
    /\ cached /\ steps < MaxSteps
    /\ \E playerId \in idsOf(gameState), chosenColor \in chosenColorInputs :
          store(playDrawnCard(gameState, playerId, chosenColor, randomSource))

onPassDrawnCard ==
    /\ cached /\ steps < MaxSteps
    /\ \E playerId \in idsOf(gameState) :
          store(passDrawnCard(gameState, playerId))

onCallUno ==
    /\ cached /\ steps < MaxSteps
    /\ \E targetPlayerId \in idsOf(gameState), caller \in idsOf(gameState) :
          store(callUnoPenalty(gameState, targetPlayerId, caller, randomSource))

onCallUnoSelf ==
    /\ cached /\ steps < MaxSteps
    /\ \E playerId \in idsOf(gameState) :
          store(callUnoSelf(gameState, playerId))

\* the playCard / playDrawnCard handler resumes after a win and deletes the
\* cache entry
onGameOverCleanup ==
    /\ cached /\ gameState.isGameOver
    /\ cached' = FALSE
    /\ UNCHANGED <<gameState, randomSource, steps, turnQuery, turnResult, lobby,
                 moveQuery, moveResult, dbStatus, inFlight>>

onDisconnect ==
    /\ cached /\ steps < MaxSteps
    /\ \E playerId \in idsOf(gameState) :
          LET result == handlePlayerDisconnect(gameState, playerId)
          IN /\ gameState' = result
             /\ cached' = (countActivePlayers(result) > 1)
    /\ steps' = steps + 1
    /\ randomSource' = nextRandom(randomSource)
    /\ UNCHANGED <<turnQuery, turnResult, lobby, moveQuery, moveResult, dbStatus, inFlight>>

EngineNext ==
    \/ onPlayCard
    \/ onDrawCard
    \/ onPlayDrawnCard
    \/ onPassDrawnCard
    \/ onCallUno
    \/ onCallUnoSelf
    \/ onGameOverCleanup

Next ==
    \/ EngineNext
    \/ onDisconnect

Spec == Init /\ [][Next]_vars

EngineSpec == Init /\ [][EngineNext]_vars

----------------------------------------------------------------------------
(* The turn sequencer on its own: every seating, direction and step count  *)

TurnInit ==
    /\ \E n \in MinSeats..MaxSeats :
          turnQuery \in [isActive : [0..(n - 1) -> BOOLEAN],
                         currentPlayerIndex : 0..(n - 1),
                         directionOfPlay : {1, -1},
                         stepCount : {1, 2}]
    /\ turnResult = <<>>
    /\ moveQuery = null
    /\ moveResult = <<>>
    /\ dbStatus = null
    /\ inFlight = {}
    /\ lobby = <<>>
    /\ gameState = null
    /\ cached = FALSE
    /\ randomSource = 0
    /\ steps = 0

TurnApply ==
    /\ turnResult = <<>>
    /\ turnResult' = <<nextPlayerIndex(turnQuery.isActive, turnQuery.currentPlayerIndex,
                                     turnQuery.directionOfPlay, turnQuery.stepCount)>>
    /\ UNCHANGED <<gameState, cached, randomSource, steps, turnQuery, lobby,
                 moveQuery, moveResult, dbStatus, inFlight>>

TurnSpec == TurnInit /\ [][TurnApply]_vars

----------------------------------------------------------------------------
(* Starting a game: createGameState on every lobby size, with the full    *)
(* deck                                                                    *)

CreateInit ==
    /\ \E n \in 0..(MaxSeats + 1) : lobby = SubSeq(allPlayerIds, 1, n)
    /\ randomSource \in 0..(NumSeeds - 1)
    /\ gameState = null
    /\ cached = FALSE
    /\ steps = 0
    /\ turnQuery = null
    /\ turnResult = <<>>
    /\ moveQuery = null
    /\ moveResult = <<>>
    /\ dbStatus = null
    /\ inFlight = {}

\* startGame calls createGameState and caches what it returns; an exception
\* is caught by the handler and nothing is cached
onStartGame ==
    /\ steps = 0
    /\ gameState' = createFullGameState(lobby, randomSource)
    /\ cached' = ~IsThrown(gameState')
    /\ steps' = 1
    /\ UNCHANGED <<randomSource, turnQuery, turnResult, lobby, moveQuery, moveResult, dbStatus, inFlight>>

CreateSpec == CreateInit /\ [][onStartGame]_vars

----------------------------------------------------------------------------
(* The legality check on its own: every card of the full deck on every     *)
(* top card and colour                                                     *)

FullCardSet == { fullDeck[k] : k \in 1..Len(fullDeck) }

MoveInit ==
    /\ moveQuery \in [cardToPlay : FullCardSet, topCard : FullCardSet,
                      currentColor : COLORS]
    /\ moveResult = <<>>
    /\ dbStatus = null
    /\ inFlight = {}
    /\ turnQuery = null
    /\ turnResult = <<>>
    /\ lobby = <<>>
    /\ gameState = null
    /\ cached = FALSE
    /\ randomSource = 0
    /\ steps = 0

MoveApply ==
    /\ moveResult = <<>>
    /\ dbStatus = null
    /\ inFlight = {}
    /\ moveResult' = <<isMoveValid(moveQuery.cardToPlay, moveQuery.topCard,
                                   moveQuery.currentColor)>>
    /\ UNCHANGED <<gameState, cached, randomSource, steps, turnQuery, turnResult, lobby,
                   moveQuery, dbStatus, inFlight>>

MoveSpec == MoveInit /\ [][MoveApply]_vars

----------------------------------------------------------------------------
(* The server's handlers as they run: each is a sequence of segments       *)
(* separated by awaits; a segment runs to its end before anything else     *)
(* runs, and between two segments any other handler can run                *)

\* the number of events accepted in one run of the server
MaxEvents == 3

\* a drawCard handler that awaits between reading the cache and calling
\* the engine
segmentsOf_suspendedDraw(handler) ==
    CASE handler \in {"playCard", "playDrawnCard"} ->
           << <<"read", "store">>, <<"cleanup">> >>
      [] handler = "drawCard" ->
           << <<"read">>, <<"store">> >>
      [] handler \in {"passDrawnCard", "player:callUno", "player:callUnoSelf"} ->
           << <<"read", "store">> >>
      [] handler = "disconnect" ->
           << <<"fetch">>, <<"read", "store">>, <<"complete">> >>
      [] handler = "startGame" ->
           << <<"fetch">>, <<"create">>, <<"commit">> >>

\* the segments of the handlers: playCard and playDrawnCard read the cache,
\* call the engine and store the result before their first await (the
\* database lookup of a finished game, after which the cache entry is
\* deleted); the other engine handlers await nothing that touches the
\* cache; handlePlayerDisconnect and startGame first await the room's row
segmentsOf(handler) ==
    CASE handler \in {"playCard", "playDrawnCard"} ->
           << <<"read", "store">>, <<"cleanup">> >>
      [] handler \in {"drawCard", "passDrawnCard", "player:callUno", "player:callUnoSelf"} ->
           << <<"read", "store">> >>
      [] handler = "disconnect" ->
           << <<"fetch">>, <<"read", "store">>, <<"complete">> >>
      [] handler = "startGame" ->
           << <<"fetch">>, <<"create">>, <<"commit">> >>

\* a handler invocation: its arguments and its local variables
invocation(handler, playerId, card, chosenColor, target) ==
    [id |-> steps, handler |-> handler, playerId |-> playerId, card |-> card,
     chosenColor |-> chosenColor, target |-> target,
     pc |-> 1, status |-> null, lobbyState |-> <<>>, snapshot |-> none]

\* the engine call, or the in-progress branch of the disconnect, of a handler
applyHandler(inv, gs, x) ==
    CASE inv.handler = "playCard" ->
           playCard(gs, inv.playerId, inv.card, inv.chosenColor, x)
      [] inv.handler = "drawCard" -> drawCard(gs, inv.playerId, x)
      [] inv.handler = "playDrawnCard" ->
           playDrawnCard(gs, inv.playerId, inv.chosenColor, x)
      [] inv.handler = "passDrawnCard" -> passDrawnCard(gs, inv.playerId)
      [] inv.handler = "player:callUno" ->
           callUnoPenalty(gs, inv.target, inv.playerId, x)
      [] inv.handler = "player:callUnoSelf" -> callUnoSelf(gs, inv.playerId)
      [] inv.handler = "disconnect" ->
           IF inv.playerId \in idsOf(gs) THEN handlePlayerDisconnect(gs, inv.playerId)
           ELSE Fail("rollback")

\* gameState.players.filter(player => player.id !== playerId) of a lobby
RECURSIVE withoutPlayer(_, _)
withoutPlayer(players, playerId) ==
    IF players = <<>> THEN <<>>
    ELSE IF Head(players) = playerId THEN withoutPlayer(Tail(players), playerId)
    ELSE <<Head(players)>> \o withoutPlayer(Tail(players), playerId)

\* the checks of startGame, lines 1807-1833: the requester is the host of
\* the lobby state fetched, the participants counted are two or more, the
\* status fetched is 'waiting'
startGameChecks(inv, participantCount) ==
    /\ inv.lobbyState # <<>>
    /\ Head(inv.lobbyState) = inv.playerId
    /\ participantCount >= 2
    /\ inv.status = "waiting"

\* the handler looks at the result of its engine call: an error is reported
\* and nothing is stored, a state replaces the cache entry (the disconnect
\* deletes the entry of a game it has ended)
storeStep(env, result) ==
    IF IsError(result)
    THEN [env EXCEPT !.returned = TRUE, !.inv.snapshot = none]
    ELSE [env EXCEPT
            !.gameState = result,
            !.randomSource = nextRandom(@),
            !.cached = IF env.inv.handler = "disconnect"
                       THEN ~result.isGameOver ELSE TRUE,
            !.inv.snapshot = none,
            !.accepted = TRUE,
            !.returned = ~result.isGameOver]

\* startGame stores the state createGameState has returned
createStep(env, created) ==
    IF IsThrown(created) THEN [env EXCEPT !.returned = TRUE]
    ELSE [env EXCEPT !.gameState = created,
                     !.cached = TRUE,
                     !.randomSource = nextRandom(@)]

\* one step of a handler on env: the shared state, the invocation, whether
\* the handler has returned and whether the request was accepted
runStep(env, step) ==
    LET inv == env.inv
    IN CASE step = "fetch" ->
              IF env.dbStatus = "deleted" THEN [env EXCEPT !.returned = TRUE]
              ELSE [env EXCEPT !.inv.status = env.dbStatus,
                               !.inv.lobbyState = env.lobby,
                               !.accepted = TRUE]
         [] step = "read" ->
              IF inv.handler = "disconnect" /\ inv.status = "waiting"
              THEN IF \E k \in 1..Len(inv.lobbyState) : inv.lobbyState[k] = inv.playerId
                   THEN [env EXCEPT
                           !.lobby = withoutPlayer(inv.lobbyState, inv.playerId),
                           !.dbStatus = IF withoutPlayer(inv.lobbyState, inv.playerId) = <<>>
                                        THEN "deleted" ELSE @,
                           !.returned = TRUE]
                   ELSE [env EXCEPT !.returned = TRUE]
              ELSE IF inv.handler = "disconnect" /\ inv.status # "in_progress"
                   THEN [env EXCEPT !.returned = TRUE]
              ELSE IF ~env.cached THEN [env EXCEPT !.returned = TRUE]
              ELSE [env EXCEPT !.inv.snapshot = env.gameState]
         [] step = "store" ->
              storeStep(env, applyHandler(inv, inv.snapshot, env.randomSource))
         [] step = "cleanup" -> [env EXCEPT !.cached = FALSE]
         [] step = "complete" -> [env EXCEPT !.dbStatus = "completed"]
         [] step = "create" ->
              IF ~startGameChecks(inv, Len(env.lobby))
              THEN [env EXCEPT !.returned = TRUE]
              ELSE createStep(env, createGameState(inv.lobbyState, env.randomSource))
         [] step = "commit" -> [env EXCEPT !.dbStatus = "in_progress"]

RECURSIVE runSteps(_, _)
runSteps(env, todo) ==
    IF todo = <<>> \/ env.returned THEN env
    ELSE runSteps(runStep(env, Head(todo)), Tail(todo))

\* the segment of an invocation that is due, run to its end
runSegment(inv) ==
    runSteps([gameState |-> gameState, cached |-> cached, randomSource |-> randomSource,
              dbStatus |-> dbStatus, lobby |-> lobby, inv |-> inv, returned |-> FALSE,
              accepted |-> FALSE],
             segmentsOf(inv.handler)[inv.pc])

\* an invocation stays suspended after a segment when segments are left
\* and the handler has not returned
suspended(inv, env) == ~env.returned /\ inv.pc < Len(segmentsOf(inv.handler))

\* the state after a segment
afterSegment(inv, env) ==
    /\ gameState' = env.gameState
    /\ cached' = env.cached
    /\ randomSource' = env.randomSource
    /\ dbStatus' = env.dbStatus
    /\ lobby' = env.lobby
    /\ inFlight' = (inFlight \ {inv})
                   \cup (IF suspended(inv, env)
                         THEN {[env.inv EXCEPT !.pc = inv.pc + 1]}
                         ELSE {})
    /\ UNCHANGED <<turnQuery, turnResult, moveQuery, moveResult>>

\* the state after the first segment of a handler; a request that is
\* refused leaves everything as it was
afterFirstSegment(inv, env) ==
    /\ afterSegment(inv, env)
    /\ steps' = IF env.accepted \/ suspended(inv, env) THEN steps + 1 ELSE steps

\* an event arrives: the first segment of its handler runs
receive(inv) ==
    /\ steps < MaxEvents
    /\ afterFirstSegment(inv, runSegment(inv))

playCardHandler ==
    /\ cached
    /\ \E playerId \in idsOf(gameState), card \in CardSet :
          \E chosenColor \in IF card.type = "wild" THEN chosenColorInputs ELSE {null} :
             receive(invocation("playCard", playerId, card, chosenColor, null))

drawCardHandler ==
    /\ cached
    /\ \E playerId \in idsOf(gameState) :
          receive(invocation("drawCard", playerId, none, null, null))

playDrawnCardHandler ==
    /\ cached
    /\ \E playerId \in idsOf(gameState), chosenColor \in chosenColorInputs :
          receive(invocation("playDrawnCard", playerId, none, chosenColor, null))

passDrawnCardHandler ==
    /\ cached
    /\ \E playerId \in idsOf(gameState) :
          receive(invocation("passDrawnCard", playerId, none, null, null))

callUnoHandler ==
    /\ cached
    /\ \E playerId \in idsOf(gameState), target \in idsOf(gameState) :
          receive(invocation("player:callUno", playerId, none, null, target))

callUnoSelfHandler ==
    /\ cached
    /\ \E playerId \in idsOf(gameState) :
          receive(invocation("player:callUnoSelf", playerId, none, null, null))

disconnectHandler ==
    \E k \in 1..Len(lobby) :
        receive(invocation("disconnect", lobby[k], none, null, null))

startGameHandler ==
    \E k \in 1..Len(lobby) :
        receive(invocation("startGame", lobby[k], none, null, null))

\* a suspended handler goes on with its next segment
resumeHandler ==
    \E inv \in inFlight :
        /\ afterSegment(inv, runSegment(inv))
        /\ UNCHANGED steps

\* a room with its game under way
RoomInit ==
    /\ randomSource \in 0..(NumSeeds - 1)
    /\ \E n \in MinSeats..MaxPlayers : lobby = SubSeq(allPlayerIds, 1, n)
    /\ gameState = createGameState(lobby, randomSource)
    /\ ~IsThrown(gameState)
    /\ cached = TRUE
    /\ dbStatus = "in_progress"
    /\ inFlight = {}
    /\ steps = 0
    /\ turnQuery = null
    /\ turnResult = <<>>
    /\ moveQuery = null
    /\ moveResult = <<>>

RoomNext ==
    \/ playCardHandler
    \/ drawCardHandler
    \/ playDrawnCardHandler
    \/ passDrawnCardHandler
    \/ callUnoHandler
    \/ callUnoSelfHandler
    \/ disconnectHandler
    \/ resumeHandler

RoomSpec == RoomInit /\ [][RoomNext]_vars

\* a room waiting for its host to start the game
LobbyInit ==
    /\ randomSource \in 0..(NumSeeds - 1)
    /\ \E n \in 1..MaxPlayers : lobby = SubSeq(allPlayerIds, 1, n)
    /\ gameState = none
    /\ cached = FALSE
    /\ dbStatus = "waiting"
    /\ inFlight = {}
    /\ steps = 0
    /\ turnQuery = null
    /\ turnResult = <<>>
    /\ moveQuery = null
    /\ moveResult = <<>>

LobbyNext ==
    \/ startGameHandler
    \/ RoomNext

LobbySpec == LobbyInit /\ [][LobbyNext]_vars

----------------------------------------------------------------------------
(* Properties                                                              *)

currentPlayer(gs) == gs.players[gs.currentPlayerIndex]

RECURSIVE cardsInHands(_, _)
cardsInHands(gs, n) == IF n = 0 THEN 0 ELSE handSize(gs, n - 1) + cardsInHands(gs, n - 1)

cardsInPlay(gs) ==
    Len(gs.drawPile) + Len(gs.discardPile) + cardsInHands(gs, numPlayers(gs))

holdsColor(hand, color) ==
    \E k \in 1..Len(hand) : hand[k].type # "wild" /\ hand[k].color = color

wildDrawFour == Card(null, "wild_draw4", "wild")

penaltyCards == { c \in CardSet : c.value \in {"draw2", "wild_draw4"} }

\* C1: in every state reachable by the engine operations, the draw pile,
\* the discard pile and the hands together hold the whole deck
C1_Conservation == cardsInPlay(gameState) = DeckSize

\* C2: a wild_draw4 played by a player who holds a non-wild card of the
\* current colour is refused
C2_WildDrawFourGating ==
    \A chosenColor \in chosenColorInputs :
        holdsColor(currentPlayer(gameState).hand, gameState.currentColor)
        => IsError(playCard(gameState, currentPlayer(gameState).id, wildDrawFour,
                            chosenColor, randomSource))

C4_DrawRequiresNoPending ==
    gameState.playableDrawnCard # none
    => \A playerId \in idsOf(gameState) :
          IsError(drawCard(gameState, playerId, randomSource))

\* C5: a draw2 or wild_draw4 played as the last card ends the game with the
\* acting player as winner, sets the colour, and delivers the 2 or 4 penalty
\* cards to the next active player in that same call
C5_WinEffectOrdering ==
    \A card \in penaltyCards, chosenColor \in COLORS :
        LET playerId == currentPlayer(gameState).id
            result == playCard(gameState, playerId, card, chosenColor, randomSource)
            penalty == IF card.value = "wild_draw4" THEN 4 ELSE 2
            receiver == getNextPlayerIndex(gameState, 1)
        IN (~IsError(result) /\ result.isGameOver)
           => /\ result.winner = playerId
              /\ result.currentColor = IF card.type = "wild" THEN chosenColor ELSE card.color
              /\ handSize(result, receiver) = handSize(gameState, receiver) + penalty

\* C6 as stated: a winning play leaves currentPlayerIndex where it was, for
\* every kind of card
C6_NoTurnAdvanceOnWin ==
    \A card \in CardSet, chosenColor \in COLORS :
        LET result == playCard(gameState, currentPlayer(gameState).id, card, chosenColor,
                               randomSource)
        IN (~IsError(result) /\ result.isGameOver)
           => result.currentPlayerIndex = gameState.currentPlayerIndex

\* the seat the effect of a card gives the turn to, from the seating alone
seatAfterEffect(gs, card) ==
    LET isActive == [i \in DOMAIN gs.players |-> gs.players[i].isActive]
        direction == IF card.value = "reverse" THEN 0 - gs.directionOfPlay
                     ELSE gs.directionOfPlay
        stepCount == IF card.value \in {"skip", "draw2", "wild_draw4"} THEN 2
                     ELSE IF card.value = "reverse" /\ countActivePlayers(gs) = 2 THEN 2
                     ELSE 1
    IN nextPlayerIndex(isActive, gs.currentPlayerIndex, direction, stepCount)

\* C6, amended: a winning play of a number card leaves currentPlayerIndex
\* where it was; a winning action or wild card still moves the turn as its
\* effect does on any play
C6_TurnOnWin ==
    \A card \in CardSet, chosenColor \in COLORS :
        LET result == playCard(gameState, currentPlayer(gameState).id, card, chosenColor,
                               randomSource)
        IN (~IsError(result) /\ result.isGameOver)
           => result.currentPlayerIndex =
                 IF card.type = "number" THEN gameState.currentPlayerIndex
                 ELSE seatAfterEffect(gameState, card)

\* a game won with a number card while every seat is active: the turn is
\* still with the winner
C6_Witness ==
    /\ gameState.isGameOver
    /\ gameState.winner # null
    /\ countActivePlayers(gameState) = numPlayers(gameState)
    /\ topOf(gameState).type = "number"
    /\ currentPlayer(gameState).id = gameState.winner
    /\ Len(currentPlayer(gameState).hand) = 0

C8_VulnerableHoldsOneCard ==
    gameState.unoPlayerId # null
    => handSize(gameState, indexOf(gameState, gameState.unoPlayerId)) = 1

\* C9: the turn is with an active player unless no player is active
C9_CurrentPlayerActive ==
    countActivePlayers(gameState) = 0 \/ currentPlayer(gameState).isActive

\* a game that goes on after a player has left: the seat before the current
\* one, against the direction of play, is inactive
C9_Witness ==
    /\ cached
    /\ ~gameState.isGameOver
    /\ countActivePlayers(gameState) >= 2
    /\ ~gameState.players[(gameState.currentPlayerIndex - gameState.directionOfPlay
                           + numPlayers(gameState)) % numPlayers(gameState)].isActive

\* C10: getNextPlayerIndex returns an active seat when there is one, the
\* only active seat when there is exactly one, and the current index when
\* there is none
C10_TurnValidity ==
    turnResult # <<>>
    => LET active == { i \in DOMAIN turnQuery.isActive : turnQuery.isActive[i] }
       IN /\ turnResult[1] \in DOMAIN turnQuery.isActive
          /\ active # {} => turnResult[1] \in active
          /\ Cardinality(active) = 1 => active = {turnResult[1]}
          /\ active = {} => turnResult[1] = turnQuery.currentPlayerIndex

\* two steps taken over an inactive seat in a table of ten
C10_Witness ==
    /\ turnResult # <<>>
    /\ Cardinality(DOMAIN turnQuery.isActive) = MaxSeats
    /\ turnQuery.stepCount = 2
    /\ ~turnQuery.isActive[(turnQuery.currentPlayerIndex + turnQuery.directionOfPlay
                            + MaxSeats) % MaxSeats]
    /\ turnQuery.isActive[turnResult[1]]
    /\ turnResult[1] # turnQuery.currentPlayerIndex

\* C11: a pending drawn card, if there is one, belongs to the player whose
\* turn it is
C11_PendingDrawOwner ==
    gameState.playableDrawnCard # none
    => gameState.playableDrawnCard.playerId = currentPlayer(gameState).id

\* a drawn card is pending for the current player in a game another player
\* has left
C11_Witness ==
    /\ cached
    /\ gameState.playableDrawnCard # none
    /\ gameState.playableDrawnCard.playerId = currentPlayer(gameState).id
    /\ countActivePlayers(gameState) < numPlayers(gameState)

\* C12: the discard pile is never empty, so the top card is always defined
C12_DiscardNeverEmpty == Len(gameState.discardPile) >= 1

\* the discard pile after a reshuffle that a played card triggered: the
\* played action or wild card alone
C12_Witness ==
    /\ cached
    /\ Len(gameState.discardPile) = 1
    /\ topOf(gameState).type # "number"
    /\ Len(gameState.drawPile) >= 1

\* every call a client can make on a state, with its result
engineCalls(gs, x) ==
    { <<"playCard", playCard(gs, playerId, card, chosenColor, x)>> :
          playerId \in idsOf(gs), card \in CardSet, chosenColor \in chosenColorInputs }
    \cup { <<"drawCard", drawCard(gs, playerId, x)>> : playerId \in idsOf(gs) }
    \cup { <<"playDrawnCard", playDrawnCard(gs, playerId, chosenColor, x)>> :
              playerId \in idsOf(gs), chosenColor \in chosenColorInputs }
    \cup { <<"passDrawnCard", passDrawnCard(gs, playerId)>> : playerId \in idsOf(gs) }
    \cup { <<"callUnoPenalty", callUnoPenalty(gs, target, caller, x)>> :
              target \in idsOf(gs), caller \in idsOf(gs) }
    \cup { <<"callUnoSelf", callUnoSelf(gs, playerId)>> : playerId \in idsOf(gs) }

C15_InitialState ==
    (steps = 1 /\ Len(lobby) >= 2 /\ Len(lobby) <= 10)
    => /\ ~IsThrown(gameState) /\ ~IsError(gameState)
       /\ DOMAIN gameState.players = 0..(Len(lobby) - 1)
       /\ \A i \in DOMAIN gameState.players :
             /\ gameState.players[i].id = lobby[i + 1]
             /\ Len(gameState.players[i].hand) = 7
       /\ Len(gameState.discardPile) = 1
       /\ gameState.discardPile[1].type = "number"
       /\ Len(gameState.drawPile) = 108 - 7 * Len(lobby) - 1
       /\ gameState.currentColor = gameState.discardPile[1].color
       /\ gameState.currentPlayerIndex = 0
       /\ gameState.directionOfPlay = 1
       /\ ~gameState.isGameOver
       /\ gameState.playableDrawnCard = none

\* a game of ten players whose first card after the deal was not a number
\* card, so that the search for the opening card had to move on
C15_Witness ==
    /\ steps = 1
    /\ cached
    /\ Len(lobby) = 10
    /\ dealCards(shuffleDeck(fullDeck, randomSource), lobby, 7).deck[1].type # "number"
    /\ gameState.discardPile[1].type = "number"

\* the cards two piles hold, whatever their order
countOf(pile, card) == Cardinality({ k \in 1..Len(pile) : pile[k] = card })

sameCards(pile, other) ==
    /\ Len(pile) = Len(other)
    /\ \A k \in 1..Len(pile) : countOf(pile, pile[k]) = countOf(other, pile[k])

\* what stays of the game when a penalty is dealt: everything but the
\* target's hand, the piles and the UNO flag
penaltyFrame(gs, result, target) ==
    /\ \A i \in DOMAIN gs.players : i # target => result.players[i] = gs.players[i]
    /\ result.players[target].id = gs.players[target].id
    /\ result.players[target].isActive = gs.players[target].isActive
    /\ result.currentPlayerIndex = gs.currentPlayerIndex
    /\ result.directionOfPlay = gs.directionOfPlay
    /\ result.currentColor = gs.currentColor
    /\ result.isGameOver = gs.isGameOver
    /\ result.winner = gs.winner
    /\ result.playableDrawnCard = gs.playableDrawnCard
    /\ topOf(result) = topOf(gs)

C17_CallUnoSelf ==
    cached
    => \A playerId \in idsOf(gameState) :
          LET result == callUnoSelf(gameState, playerId)
          IN /\ ~IsError(result) <=> gameState.unoPlayerId = playerId
             /\ ~IsError(result) => result = [gameState EXCEPT !.unoPlayerId = null]

\* C18: a player who plays the last card, a number card, has won and is
\* not vulnerable, and no penalty call against the winner succeeds, then or
\* in any later state of the finished game
C18_WinWithNumberCard ==
    /\ \A card \in { c \in CardSet : c.type = "number" } :
          LET playerId == currentPlayer(gameState).id
              result == playCard(gameState, playerId, card, null, randomSource)
          IN (Len(currentPlayer(gameState).hand) = 1 /\ ~IsError(result))
             => /\ result.isGameOver
                /\ result.winner = playerId
                /\ result.unoPlayerId # playerId
                /\ \A callerPlayerId \in idsOf(gameState) :
                      IsError(callUnoPenalty(result, playerId, callerPlayerId,
                                             nextRandom(randomSource)))
    /\ (gameState.isGameOver /\ gameState.winner # null
        /\ handSize(gameState, indexOf(gameState, gameState.winner)) = 0)
       => /\ gameState.unoPlayerId # gameState.winner
          /\ \A callerPlayerId \in idsOf(gameState) :
                IsError(callUnoPenalty(gameState, gameState.winner, callerPlayerId,
                                       randomSource))

\* the vulnerable player is to move and the one card held is a number card
\* that can be played
C18_Witness ==
    /\ cached
    /\ ~gameState.isGameOver
    /\ gameState.playableDrawnCard = none
    /\ gameState.unoPlayerId = currentPlayer(gameState).id
    /\ Len(currentPlayer(gameState).hand) = 1
    /\ currentPlayer(gameState).hand[1].type = "number"
    /\ isMoveValid(currentPlayer(gameState).hand[1], topOf(gameState),
                   gameState.currentColor)

\* the card a successful drawCard took: held pending, or the last card of
\* the hand of the player who drew
drawnBy(gs, result) ==
    IF result.playableDrawnCard # none THEN result.playableDrawnCard.card
    ELSE result.players[gs.currentPlayerIndex].hand[
             Len(result.players[gs.currentPlayerIndex].hand)]

\* C19: drawCard on an empty draw pile with two or more discards leaves the
\* former top card alone on the discard pile; the other discards, wilds
\* without colour, are the new draw pile and the one card drawn; top card
\* and current colour are as before
C19_ReshuffleOnDraw ==
    (cached /\ ~gameState.isGameOver
     /\ Len(gameState.drawPile) = 0 /\ Len(gameState.discardPile) >= 2)
    => LET result == drawCard(gameState, currentPlayer(gameState).id, randomSource)
       IN /\ ~IsError(result)
          /\ result.discardPile = <<topOf(gameState)>>
          /\ result.currentColor = gameState.currentColor
          /\ Len(result.drawPile) = Len(gameState.discardPile) - 2
          /\ sameCards(<<drawnBy(gameState, result)>> \o result.drawPile,
                       [k \in 1..(Len(gameState.discardPile) - 1) |->
                           resetCard(gameState.discardPile[k])])
          /\ \A k \in 1..Len(result.drawPile) :
                result.drawPile[k].type = "wild" => result.drawPile[k].color = null

\* a game that goes on with an empty draw pile and a played wild among the
\* discards below the top
C19_Witness ==
    /\ cached
    /\ ~gameState.isGameOver
    /\ Len(gameState.drawPile) = 0
    /\ Len(gameState.discardPile) >= 3
    /\ \E k \in 1..(Len(gameState.discardPile) - 1) :
          gameState.discardPile[k].type = "wild"

\* C20: drawCard by the player to move, with an empty draw pile and the top
\* card alone on the discard pile, returns the no-cards error
C20_NoCardsAvailable ==
    (cached /\ ~gameState.isGameOver
     /\ Len(gameState.drawPile) = 0 /\ Len(gameState.discardPile) = 1)
    => drawCard(gameState, currentPlayer(gameState).id, randomSource) = Fail(ErrNoCards)

\* a game that goes on with nothing to draw and nothing to recycle
C20_Witness ==
    /\ cached
    /\ ~gameState.isGameOver
    /\ Len(gameState.drawPile) = 0
    /\ Len(gameState.discardPile) = 1
    /\ steps >= 1

\* the seat d places from a seat in a direction
seatAt(gs, from, direction, d) ==
    (from + d * direction + d * numPlayers(gs)) % numPlayers(gs)

\* the k-th active seat met when going round from a seat in a direction
\* (the seat itself is met last)
kthActiveAfter(gs, from, direction, k) ==
    LET met(d) == { e \in 1..d : gs.players[seatAt(gs, from, direction, e)].isActive }
    IN seatAt(gs, from, direction,
              CHOOSE d \in 1..(k * numPlayers(gs)) :
                  /\ gs.players[seatAt(gs, from, direction, d)].isActive
                  /\ Cardinality(met(d)) = k)

\* the plays open to the player to move: a card from the hand, or the
\* pending drawn card
playsOf(gs, x) ==
    { [card |-> card, chosenColor |-> chosenColor,
       result |-> playCard(gs, currentPlayer(gs).id, card, chosenColor, x)] :
          card \in CardSet, chosenColor \in COLORS }
    \cup (IF gs.playableDrawnCard = none THEN {}
          ELSE { [card |-> gs.playableDrawnCard.card, chosenColor |-> chosenColor,
                  result |-> playDrawnCard(gs, currentPlayer(gs).id, chosenColor, x)] :
                    chosenColor \in COLORS })

\* the plays that succeed and do not end the game
nonWinningPlays(gs, x) ==
    { play \in playsOf(gs, x) : ~IsError(play.result) /\ ~play.result.isGameOver }

\* C21: a non-winning reverse negates the direction; between exactly two
\* active players the acting player moves again, otherwise the first active
\* player after the acting one, in the new direction, does
C21_Reverse ==
    cached
    => \A play \in nonWinningPlays(gameState, randomSource) :
          play.card.value = "reverse"
          => /\ play.result.directionOfPlay = 0 - gameState.directionOfPlay
             /\ play.result.currentPlayerIndex =
                   IF countActivePlayers(gameState) = 2
                   THEN gameState.currentPlayerIndex
                   ELSE kthActiveAfter(gameState, gameState.currentPlayerIndex,
                                       0 - gameState.directionOfPlay, 1)

\* the player to move holds a reverse that can be played, in a game of
\* three seats of which two are active
C21_Witness ==
    /\ cached
    /\ numPlayers(gameState) = 3
    /\ countActivePlayers(gameState) = 2
    /\ \E play \in nonWinningPlays(gameState, randomSource) : play.card.value = "reverse"

\* C24: after a non-winning play the turn is with the first active player
\* after the acting one for number and wild cards, and with the second for
\* skip, draw2 and wild_draw4
C24_TurnAfterPlay ==
    cached
    => \A play \in nonWinningPlays(gameState, randomSource) :
          /\ play.card.value \in {"skip", "draw2", "wild_draw4"}
                => play.result.currentPlayerIndex =
                      kthActiveAfter(gameState, gameState.currentPlayerIndex,
                                     gameState.directionOfPlay, 2)
          /\ (play.card.type = "number" \/ play.card.value = "wild")
                => play.result.currentPlayerIndex =
                      kthActiveAfter(gameState, gameState.currentPlayerIndex,
                                     gameState.directionOfPlay, 1)

\* the player to move can play a skip, draw2 or wild_draw4 while the next
\* seat in the direction of play is inactive and two others are not
C24_Witness ==
    /\ cached
    /\ countActivePlayers(gameState) >= 2
    /\ ~gameState.players[seatAt(gameState, gameState.currentPlayerIndex,
                                 gameState.directionOfPlay, 1)].isActive
    /\ \E play \in nonWinningPlays(gameState, randomSource) :
          play.card.value \in {"skip", "draw2", "wild_draw4"}

\* the game states that differ from a state in the contents of hands only:
\* one card of one hand replaced by any card, or every hand turned round
handVariants(gs) ==
    UNION { { [gs EXCEPT !.players[i].hand[k] = card] :
                 k \in 1..handSize(gs, i), card \in CardSet } :
            i \in DOMAIN gs.players }
    \cup { [gs EXCEPT !.players =
               [i \in DOMAIN gs.players |->
                   [gs.players[i] EXCEPT !.hand =
                       [k \in 1..Len(@) |-> @[Len(@) + 1 - k]]]]] }

\* C22: game states that differ only in the contents of hands, the sizes
\* being the same, have the same projection for the clients
C22_ProjectionHidesHands ==
    cached
    => \A other \in handVariants(gameState) :
          getRoomStateForClient(other) = getRoomStateForClient(gameState)

\* a game under way has a variant with a different card in a hand of two
\* cards or more
C22_Witness ==
    /\ cached
    /\ steps >= 1
    /\ \E other \in handVariants(gameState) :
          /\ other # gameState
          /\ \E i \in DOMAIN gameState.players :
                /\ handSize(gameState, i) >= 2
                /\ other.players[i].hand # gameState.players[i].hand

\* C23: a draw2 (wild_draw4) played on a draw pile of fewer than 2 (4) cards
\* gives the next active player min(2 (4), |drawPile| + |discardPile| - 1)
\* cards, the discard pile counted with the played card on top of it
C23_ReshuffleOnShortage ==
    cached
    => \A play \in playsOf(gameState, randomSource) :
          LET penalty == IF play.card.value = "wild_draw4" THEN 4 ELSE 2
              receiver == getNextPlayerIndex(gameState, 1)
          IN (/\ ~IsError(play.result)
              /\ play.card \in penaltyCards
              /\ Len(gameState.drawPile) < penalty)
             => handSize(play.result, receiver) =
                   handSize(gameState, receiver)
                   + Min(penalty, Len(gameState.drawPile)
                                  + (Len(gameState.discardPile) + 1) - 1)

\* the players who hold exactly one card
holdersOfOne(gs) == { i \in DOMAIN gs.players : handSize(gs, i) = 1 }

\* C25 as stated: after a successful operation that changes a hand size, a
\* player who is the only one to hold exactly one card is the vulnerable
\* player
C25_RecomputeVulnerability ==
    cached
    => \A call \in engineCalls(gameState, randomSource) :
          (/\ ~IsError(call[2])
           /\ \E i \in DOMAIN gameState.players :
                 handSize(call[2], i) # handSize(gameState, i))
          => \A i \in DOMAIN gameState.players :
                holdersOfOne(call[2]) = {i}
                => call[2].unoPlayerId = gameState.players[i].id

\* the UNO flag after a successful operation of the player to move: the
\* acting player when a play leaves that player with one card; otherwise
\* cleared when it was the acting player and a play was made or a drawn card
\* went into the hand; otherwise as it was
unoFlagAfter(gs, op, result) ==
    LET actor == gs.currentPlayerIndex
        playerId == gs.players[actor].id
    IN IF op \in {"playCard", "playDrawnCard"} /\ handSize(result, actor) = 1
       THEN playerId
       ELSE IF gs.unoPlayerId = playerId
               /\ (op \in {"playCard", "playDrawnCard", "passDrawnCard"}
                   \/ handSize(result, actor) # handSize(gs, actor))
            THEN null
       ELSE gs.unoPlayerId

\* C25, amended: the vulnerable player follows the acting player only; the
\* hands of the other players are not looked at
C25_VulnerabilityFollowsActor ==
    cached
    => \A call \in engineCalls(gameState, randomSource) :
          (/\ ~IsError(call[2])
           /\ call[1] \in {"playCard", "playDrawnCard", "drawCard", "passDrawnCard"})
          => call[2].unoPlayerId = unoFlagAfter(gameState, call[1], call[2])

\* a play leaves the acting player with one card while another player, not
\* vulnerable, holds one card too
C25_Witness ==
    /\ cached
    /\ \E call \in engineCalls(gameState, randomSource) :
          /\ call[1] = "playCard"
          /\ ~IsError(call[2])
          /\ ~call[2].isGameOver
          /\ Cardinality(holdersOfOne(call[2])) >= 2
          /\ call[2].unoPlayerId = currentPlayer(gameState).id
          /\ gameState.unoPlayerId = null

\* C26: a successful drawCard takes exactly one card from the draw pile
\* (rebuilt from the discards first when it is empty); a card that can be
\* played on the top card and colour is held pending, outside the hand, with
\* the turn where it was; any other card goes to the end of the drawer's
\* hand, nothing is pending and the turn moves one active seat on
C26_DrawCard ==
    (cached /\ ~gameState.isGameOver)
    => LET actor == gameState.currentPlayerIndex
           playerId == gameState.players[actor].id
           result == drawCard(gameState, playerId, randomSource)
           card == drawnBy(gameState, result)
       IN ~IsError(result)
          => /\ Len(result.drawPile) + Len(result.discardPile)
                   = Len(gameState.drawPile) + Len(gameState.discardPile) - 1
             /\ gameState.drawPile # <<>>
                   => /\ card = Head(gameState.drawPile)
                      /\ result.drawPile = Tail(gameState.drawPile)
                      /\ result.discardPile = gameState.discardPile
             /\ \A i \in DOMAIN gameState.players :
                   i # actor => result.players[i] = gameState.players[i]
             /\ IF isMoveValid(card, topOf(gameState), gameState.currentColor)
                THEN /\ result.playableDrawnCard = [card |-> card, playerId |-> playerId]
                     /\ result.players[actor].hand = gameState.players[actor].hand
                     /\ result.currentPlayerIndex = actor
                ELSE /\ result.playableDrawnCard = none
                     /\ result.players[actor].hand =
                           Append(gameState.players[actor].hand, card)
                     /\ result.currentPlayerIndex =
                           kthActiveAfter(gameState, actor, gameState.directionOfPlay, 1)

\* the player to move, who has played before, draws a card that can be
\* played at once
C26_Witness ==
    /\ cached
    /\ ~gameState.isGameOver
    /\ steps >= 1
    /\ gameState.playableDrawnCard = none
    /\ gameState.drawPile # <<>>
    /\ isMoveValid(Head(gameState.drawPile), topOf(gameState), gameState.currentColor)
    /\ ~IsError(drawCard(gameState, currentPlayer(gameState).id, randomSource))

\* a drawn card is pending for a player
ownsPendingDraw(gs, playerId) ==
    IF gs.playableDrawnCard = none THEN FALSE
    ELSE gs.playableDrawnCard.playerId = playerId

\* C27: passDrawnCard succeeds exactly when the game is not over, the caller
\* is the current player and the pending drawn card is the caller's; then
\* the card is at the end of the caller's hand, nothing is pending, the turn
\* is one active seat on, and piles, other hands, direction and colour are
\* as before
C27_PassDrawnCard ==
    cached
    => \A playerId \in idsOf(gameState) :
          LET result == passDrawnCard(gameState, playerId)
              actor == gameState.currentPlayerIndex
          IN /\ ~IsError(result)
                   <=> /\ ~gameState.isGameOver
                       /\ gameState.players[actor].id = playerId
                       /\ ownsPendingDraw(gameState, playerId)
             /\ ~IsError(result)
                   => /\ result.players[actor].hand =
                            Append(gameState.players[actor].hand,
                                   gameState.playableDrawnCard.card)
                      /\ result.playableDrawnCard = none
                      /\ result.currentPlayerIndex =
                            kthActiveAfter(gameState, actor, gameState.directionOfPlay, 1)
                      /\ result.drawPile = gameState.drawPile
                      /\ result.discardPile = gameState.discardPile
                      /\ \A i \in DOMAIN gameState.players :
                            i # actor => result.players[i] = gameState.players[i]
                      /\ result.directionOfPlay = gameState.directionOfPlay
                      /\ result.currentColor = gameState.currentColor

\* a drawn card is pending for the player to move, in a game of three
C27_Witness ==
    /\ cached
    /\ ~gameState.isGameOver
    /\ numPlayers(gameState) = 3
    /\ ownsPendingDraw(gameState, currentPlayer(gameState).id)
    /\ ~IsError(passDrawnCard(gameState, currentPlayer(gameState).id))

\* a limbo state with the pending card in its owner's hand and nothing
\* pending
pendingInHand(gs) ==
    [gs EXCEPT !.players[gs.currentPlayerIndex].hand =
                   Append(@, gs.playableDrawnCard.card),
               !.playableDrawnCard = none]

\* two results are the same: the same error, or the same state with every
\* hand holding the same cards
sameResult(result, other) ==
    IF IsError(result) \/ IsError(other) THEN result = other
    ELSE /\ DOMAIN result.players = DOMAIN other.players
         /\ \A i \in DOMAIN result.players :
               /\ result.players[i].id = other.players[i].id
               /\ result.players[i].isActive = other.players[i].isActive
               /\ sameCards(result.players[i].hand, other.players[i].hand)
         /\ result.drawPile = other.drawPile
         /\ result.discardPile = other.discardPile
         /\ result.currentPlayerIndex = other.currentPlayerIndex
         /\ result.directionOfPlay = other.directionOfPlay
         /\ result.currentColor = other.currentColor
         /\ result.isGameOver = other.isGameOver
         /\ result.winner = other.winner
         /\ result.unoPlayerId = other.unoPlayerId
         /\ result.playableDrawnCard = other.playableDrawnCard

\* C28: in a state with a drawn card pending for the current player,
\* playDrawnCard gives, for every colour chosen, the result of playCard of
\* that card on the state with the card in the hand and nothing pending
C28_PlayDrawnCardAsPlayCard ==
    (cached /\ ownsPendingDraw(gameState, currentPlayer(gameState).id))
    => \A chosenColor \in chosenColorInputs :
          sameResult(playDrawnCard(gameState, currentPlayer(gameState).id, chosenColor,
                                   randomSource),
                     playCard(pendingInHand(gameState), currentPlayer(gameState).id,
                              gameState.playableDrawnCard.card, chosenColor, randomSource))

\* the pending card is played with success by a player who holds one card
\* besides it, and the play changes the UNO flag
C28_Witness ==
    /\ cached
    /\ ownsPendingDraw(gameState, currentPlayer(gameState).id)
    /\ handSize(gameState, gameState.currentPlayerIndex) = 1
    /\ \E chosenColor \in COLORS :
          LET result == playDrawnCard(gameState, currentPlayer(gameState).id,
                                      chosenColor, randomSource)
          IN /\ ~IsError(result)
             /\ result.unoPlayerId # gameState.unoPlayerId

RECURSIVE rejected(_)
rejected(pile) ==
    IF pile = <<>> THEN <<>>
    ELSE IF Head(pile).type = "number" THEN <<>>
    ELSE <<Head(pile)>> \o rejected(Tail(pile))

\* the pile createGameState is left with after the deal
afterDeal == dealCards(shuffleDeck(fullDeck, randomSource), lobby, dealtPerPlayer).deck

\* C30: for 2 to 10 players and every shuffle, createGameState returns with
\* a number card on the discard pile, and every wild or action card that was
\* in front of it is in the draw pile, which with the opening card holds the
\* cards left after the deal
C30_OpeningSearch ==
    (steps = 1 /\ Len(lobby) >= MinSeats /\ Len(lobby) <= MaxSeats)
    => /\ ~IsThrown(gameState)
       /\ gameState.discardPile[1].type = "number"
       /\ \A k \in 1..Len(rejected(afterDeal)) :
             countOf(gameState.drawPile, rejected(afterDeal)[k])
                = countOf(afterDeal, rejected(afterDeal)[k])
       /\ sameCards(gameState.drawPile \o gameState.discardPile, afterDeal)

\* a game whose first two cards after the deal were rejected
C30_Witness ==
    /\ steps = 1
    /\ cached
    /\ Len(rejected(afterDeal)) >= 2
    /\ gameState.discardPile[1] = afterDeal[Len(rejected(afterDeal)) + 1]

\* the states one operation on a stored state can store: the successful
\* engine calls and the disconnect of a player
storedBy(gs, x) ==
    { call[2] : call \in { c \in engineCalls(gs, x) : ~IsError(c[2]) } }
    \cup { handlePlayerDisconnect(gs, playerId) : playerId \in idsOf(gs) }

\* C31: whatever the interleaving of the seven events on a room, every
\* state stored in the cache is the result of one operation on the state
\* stored just before it
C31_Serialized ==
    [][gameState' # gameState => gameState' \in storedBy(gameState, randomSource)]_vars

\* a disconnect is suspended at its await while an event that arrived after
\* it has been handled on the cached game
C31_Witness ==
    /\ cached
    /\ \E inv \in inFlight :
          /\ inv.handler = "disconnect"
          /\ inv.pc = 2
          /\ steps >= inv.id + 2
    /\ \A x \in 0..(NumSeeds - 1) : gameState # createGameState(lobby, x)

\* a startGame handler stores a game it has created
startGameCreates(inv) ==
    /\ inv \in inFlight
    /\ inv.handler = "startGame"
    /\ inv.pc = 2
    /\ [inv EXCEPT !.pc = 3] \in inFlight'

\* C32: startGame creates a game only for the host, with two players or
\* more in the room and the room waiting; whatever the interleaving of
\* startGame requests, a game is created only when none was created before,
\* so that no game in progress is replaced by a fresh deal
C32_StartGameOnce ==
    [][\A inv \in inFlight :
          startGameCreates(inv)
          => /\ inv.playerId = Head(lobby)
             /\ Len(lobby) >= 2
             /\ dbStatus = "waiting"
             /\ gameState = none
             /\ ~cached]_vars

\* the seats of the players who have not left
activeSeats(gs) == { i \in DOMAIN gs.players : gs.players[i].isActive }

\* what C33 asks of the state a disconnect leaves: with one active player the
\* game is over and that player has won, with none it is over without winner
endedByDisconnect(result) ==
    /\ Cardinality(activeSeats(result)) = 1
          => /\ result.isGameOver
             /\ \A i \in activeSeats(result) : result.winner = result.players[i].id
    /\ Cardinality(activeSeats(result)) = 0
          => /\ result.isGameOver
             /\ result.winner = null

\* C33: a disconnect from a game in progress that leaves one active player
\* ends the game at once with that player as winner; a disconnect that
\* leaves no active player ends it without a winner
C33_LastPlayerWins ==
    (cached /\ ~gameState.isGameOver)
    => \A playerId \in idsOf(gameState) :
          LET result == handlePlayerDisconnect(gameState, playerId)
          IN /\ endedByDisconnect(result)
             /\ \A other \in idsOf(gameState) :
                   endedByDisconnect(handlePlayerDisconnect(result, other))

\* a game of three that two players have left: it is over, the cache entry
\* is gone, and the last player has won with cards in hand
C33_Witness ==
    /\ ~cached
    /\ gameState.isGameOver
    /\ numPlayers(gameState) = 3
    /\ Cardinality(activeSeats(gameState)) = 1
    /\ \A i \in activeSeats(gameState) :
          /\ gameState.winner = gameState.players[i].id
          /\ handSize(gameState, i) >= 1

\* the cards of all hands, seat after seat
RECURSIVE handsOf(_, _)
handsOf(gs, n) ==
    IF n = 0 THEN <<>> ELSE handsOf(gs, n - 1) \o gs.players[n - 1].hand

\* every card of the game: the piles, the hands and the pending drawn card
allCards(gs) ==
    gs.drawPile \o gs.discardPile \o handsOf(gs, numPlayers(gs))
    \o (IF gs.playableDrawnCard = none THEN <<>> ELSE <<gs.playableDrawnCard.card>>)

\* C34: in every state reached by engine operations and disconnects, draw
\* pile, discard pile, hands and pending drawn card hold together exactly
\* the cards of the deck the game was created with
C34_ClosedSystem == sameCards(allCards(gameState), createDeck)

\* C35: once the game is over every call of the six engine operations
\* fails, whoever makes it and whatever its arguments
C35_GameOverAbsorbing ==
    gameState.isGameOver
    => \A call \in engineCalls(gameState, randomSource) : IsError(call[2])

\* the results of everything the player to move can ask for: a play from
\* the hand, a draw, the play of the pending card, or keeping it
movesOfCurrentPlayer(gs, x) ==
    { play.result : play \in playsOf(gs, x) }
    \cup { drawCard(gs, currentPlayer(gs).id, x),
           passDrawnCard(gs, currentPlayer(gs).id) }

\* C36: as long as the game is not over the player to move has an operation
\* that succeeds
C36_NoDeadlock ==
    (cached /\ ~gameState.isGameOver)
    => \E result \in movesOfCurrentPlayer(gameState, randomSource) : ~IsError(result)

\* C37: currentColor is always one of the four colours, and under a top
\* card that is not wild it is the colour of that card
C37_ColorAgrees ==
    cached =>
        /\ gameState.currentColor \in COLORS
        /\ topOf(gameState).type # "wild"
           => gameState.currentColor = topOf(gameState).color

\* a wild card has been played and lies on top under a chosen colour that
\* no card of the discard pile has
C37_Witness ==
    /\ cached
    /\ Len(gameState.discardPile) >= 2
    /\ topOf(gameState).type = "wild"
    /\ gameState.currentColor \in COLORS
    /\ \A k \in 1..Len(gameState.discardPile) :
           gameState.discardPile[k].color # gameState.currentColor

\* the seats whose hand is empty
emptyHanded(gs) == { n \in DOMAIN gs.players : gs.players[n].hand = <<>> }

\* every successful result of playDrawnCard in the state gs
drawnPlays(gs, x) ==
    { result \in { playDrawnCard(gs, id, chosenColor, x) :
                       id \in idsOf(gs), chosenColor \in chosenColorInputs } :
          ~IsError(result) }

\* C38: under the engine operations the game is over exactly when one
\* player has an empty hand, that player is the winner, and playDrawnCard
\* never ends the game
C38_OverIffEmptyHand ==
    /\ gameState.isGameOver <=> Cardinality(emptyHanded(gameState)) = 1
    /\ gameState.isGameOver
       => \A n \in emptyHanded(gameState) : gameState.winner = gameState.players[n].id
    /\ ~gameState.isGameOver => emptyHanded(gameState) = {}
    /\ \A result \in drawnPlays(gameState, randomSource) : ~result.isGameOver

\* a play from the hand has ended the game: one hand is empty, its owner
\* is the winner and every other player still holds cards
C38_Witness ==
    /\ gameState.isGameOver
    /\ \E n \in DOMAIN gameState.players :
          /\ emptyHanded(gameState) = {n}
          /\ gameState.winner = gameState.players[n].id

\* the successful UNO calls in the state gs, each with the seat it is about:
\* a penalty on a target by any caller, and a player's own call
unoCalls(gs, x) ==
    { call \in
        { [target |-> indexOf(gs, targetPlayerId),
           result |-> callUnoPenalty(gs, targetPlayerId, callerPlayerId, x)] :
              targetPlayerId \in idsOf(gs), callerPlayerId \in idsOf(gs) \cup {null} }
        \cup { [target |-> indexOf(gs, playerId),
                result |-> callUnoSelf(gs, playerId)] : playerId \in idsOf(gs) } :
        ~IsError(call.result) }

\* C39: a successful callUnoPenalty or callUnoSelf leaves the turn, the
\* direction, the colour, the pending draw, isGameOver, the winner, the top
\* discard card and every hand but the target's as they were
C39_UnoCallFrame ==
    cached
    => \A call \in unoCalls(gameState, randomSource) :
          penaltyFrame(gameState, call.result, call.target)

\* a draw is pending for the player to move while another player is
\* vulnerable, so that a penalty and a self call both succeed
C39_Witness ==
    /\ cached
    /\ gameState.playableDrawnCard # none
    /\ gameState.unoPlayerId # null
    /\ gameState.unoPlayerId # currentPlayer(gameState).id
    /\ Cardinality({ call.result : call \in unoCalls(gameState, randomSource) }) = 2

====
